---- MODULE Spec2Model ----
(***************************************************************************)
(* Model of setup.py: the RailsBootstrap provisioning orchestrator.        *)
(*                                                                         *)
(* The state is the host (accounts, files, packages, services, database    *)
(* roles) that the external commands mutate, plus the position of the one   *)
(* sequential process inside run().  Each method of RailsBootstrap is one   *)
(* action; the outcome of every external command is an input drawn from      *)
(* BOOLEAN.  A command that exits non-zero is taken to leave the host as it  *)
(* was.  History variables (trace, errlog, host0, prevExit) record what a    *)
(* run did so that properties about a run can be stated on states; the host  *)
(* field bashrcByScript records that setup_shell created the startup file.   *)
(***************************************************************************)
EXTENDS Integers, Sequences, FiniteSets, TLC

\* ---------------------------------------------------------------- bounds
MaxRuns == 2      \* invocations of the script on one host
MaxLen == 2       \* words in a startup file that exists before the first run

\* ------------------------------------------------------- static data
\* self.user = os.environ.get('SUDO_USER', 'ubuntu'); sudo run by root
\* itself sets SUDO_USER=root.
Users == {"ubuntu", "root"}

\* user=None / env=None of run_cmd
None == ""
NoEnv == [given |-> FALSE, HOME |-> "", PATH |-> <<>>]

\* self.user_home = Path(f'/home/{self.user}')
user_home(u) == IF u = "ubuntu" THEN "/home/ubuntu" ELSE "/home/root"
\* self.user_home / '.local'
local_dir(u) == IF u = "ubuntu" THEN "/home/ubuntu/.local" ELSE "/home/root/.local"
\* self.user_home / '.local' / 'bin'
local_bin(u) == IF u = "ubuntu" THEN "/home/ubuntu/.local/bin" ELSE "/home/root/.local/bin"
\* self.mise_bin
mise_bin(u) == IF u = "ubuntu" THEN "/home/ubuntu/.local/bin/mise" ELSE "/home/root/.local/bin/mise"
\* self.user_home / '.bashrc'
bashrc_path(u) == IF u = "ubuntu" THEN "/home/ubuntu/.bashrc" ELSE "/home/root/.bashrc"
\* f'{self.user}:{self.user}'
owner_arg(u) == IF u = "ubuntu" THEN "ubuntu:ubuntu" ELSE "root:root"
\* the SQL texts, which embed self.user
select_sql(u) == IF u = "ubuntu" THEN "SELECT 1 FROM pg_user WHERE usename = 'ubuntu';"
                 ELSE "SELECT 1 FROM pg_user WHERE usename = 'root';"
create_sql(u) == IF u = "ubuntu" THEN "CREATE USER ubuntu WITH SUPERUSER CREATEDB PASSWORD 'ubuntu';"
                 ELSE "CREATE USER root WITH SUPERUSER CREATEDB PASSWORD 'root';"

\* self.packages, passed as one block to apt-get install
packages == <<"build-essential", "curl", "git", "libpq-dev", "zlib1g-dev",
              "libssl-dev", "libreadline-dev", "libyaml-dev", "libsqlite3-dev",
              "sqlite3", "libxml2-dev", "libxslt1-dev", "libcurl4-openssl-dev",
              "libffi-dev", "postgresql", "postgresql-contrib">>

\* the loop list of install_runtimes
runtimes == <<"ruby@latest", "node@lts", "yarn@latest">>

\* the script texts handed to bash -c
mise_install_script == "curl https://mise.jdx.dev/install.sh | sh"
rails_script == "export PATH; eval mise activate bash; gem install rails --no-document"

\* File contents are sequences of words.  config is the block setup_shell
\* appends; Marker is the text 'mise activate' it searches for.
config == <<"#mise-configuration", "export-PATH", "if-command-v-mise", "eval",
            "mise", "activate", "bash", "fi">>
Marker == <<"mise", "activate">>
Sentinel == <<"1">>

\* words a user's own startup file is made of
Words == {"x", "mise", "activate"}

\* the order of the calls in run()
StepOrder == <<"ensure_user", "install_packages", "install_mise", "setup_shell",
               "install_runtimes", "setup_postgresql", "install_rails">>

\* ------------------------------------------------------- pure helpers
\* Python's `needle in haystack` on text: a contiguous occurrence
Contains(hay, needle) ==
  \E i \in 0..(Len(hay) - Len(needle)) :
     \A j \in 1..Len(needle) : hay[i + j] = needle[j]

SeqsUpTo(S, n) == UNION {[1..k -> S] : k \in 0..n}

\* what the captured streams of a failing command look like
FailOut == <<"captured-stdout">>
FailErr == <<"captured-stderr">>

VARIABLES
  user,      \* self.user, fixed for the host
  host,      \* the host state the external commands read and change
  pc,        \* position of the process in run()
  run,       \* number of the current invocation
  euid,      \* os.geteuid() of the current invocation
  exitCode,  \* exit status of the current invocation, -1 while it runs
  trace,     \* commands and file operations of the current invocation
  errlog,    \* logger.error lines of the current invocation
  host0,     \* host at the start of the current invocation
  prevExit   \* exit status of the previous invocation, -1 if none

vars == <<user, host, pc, run, euid, exitCode, trace, errlog, host0, prevExit>>

\* ------------------------------------------------------- the executor
\* The local state of a method while it executes: the host, the history and
\* whether a CalledProcessError is propagating.
Enter(step) ==
  [step |-> step, host |-> host, trace |-> trace, errlog |-> errlog,
   raised |-> FALSE, stdout |-> <<>>]

\* an `except subprocess.CalledProcessError:` clause
Caught(s) == [s EXCEPT !.raised = FALSE]

\* run_cmd wrapping for every named identity, root included
run_cmd_wrapRoot(s, cmd, usr, env, ok, out, after) ==
  IF s.raised THEN s
  ELSE LET argv == IF usr # None
                   THEN <<"sudo", "-u", usr, "-H">> \o cmd
                   ELSE cmd
           entry == [step |-> s.step, kind |-> "cmd", cmd |-> cmd, usr |-> usr,
                     argv |-> argv, env |-> env, ok |-> ok,
                     stdout |-> IF ok THEN out ELSE FailOut,
                     stderr |-> IF ok THEN <<>> ELSE FailErr]
       IN [s EXCEPT !.trace = Append(@, entry),
                    !.host = IF ok THEN after ELSE @,
                    !.errlog = IF ok THEN @
                               ELSE Append(@, <<"Command failed:">> \o argv),
                    !.raised = ~ok,
                    !.stdout = IF ok THEN out ELSE FailOut]

\* run_cmd: wrap, execute, log and raise on a non-zero status.  ok is the
\* outcome of the process, out its stdout on success, after the host it
\* leaves when it succeeds.  Nothing happens while an exception propagates.
run_cmd(s, cmd, usr, env, ok, out, after) ==
  IF s.raised THEN s
  ELSE LET argv == IF usr # None /\ usr # "root"
                   THEN <<"sudo", "-u", usr, "-H">> \o cmd
                   ELSE cmd
           entry == [step |-> s.step, kind |-> "cmd", cmd |-> cmd, usr |-> usr,
                     argv |-> argv, env |-> env, ok |-> ok,
                     stdout |-> IF ok THEN out ELSE FailOut,
                     stderr |-> IF ok THEN <<>> ELSE FailErr]
       IN [s EXCEPT !.trace = Append(@, entry),
                    !.host = IF ok THEN after ELSE @,
                    !.errlog = IF ok THEN @
                               ELSE Append(@, <<"Command failed:">> \o argv),
                    !.raised = ~ok,
                    !.stdout = IF ok THEN out ELSE FailOut]

\* a file operation done by the script itself (Path.mkdir, open(...,'a'))
fs_op(s, op, path, after) ==
  IF s.raised THEN s
  ELSE [s EXCEPT !.trace = Append(@, [step |-> s.step, kind |-> "fs",
                                     cmd |-> <<op, path>>, usr |-> None,
                                     argv |-> <<op, path>>, env |-> NoEnv,
                                     ok |-> TRUE, stdout |-> <<>>, stderr |-> <<>>]),
                 !.host = after]

\* leaving a method: either to the next call of run(), or, with the
\* exception uncaught, out of the interpreter with status 1
Return(s, next) ==
  /\ host' = s.host
  /\ trace' = s.trace
  /\ errlog' = s.errlog
  /\ pc' = IF s.raised THEN "exited" ELSE next
  /\ exitCode' = IF s.raised THEN 1 ELSE exitCode
  /\ UNCHANGED <<user, run, euid, host0, prevExit>>

\* ------------------------------------------------------- the host
FreshHost(u) ==
  [userExists |-> (u = "root"), inSudoGroup |-> FALSE,
   homeExists |-> FALSE, homeOwner |-> "-",
   localExists |-> FALSE, localOwner |-> "-",
   miseBin |-> FALSE,
   bashrcExists |-> FALSE, bashrc |-> <<>>, bashrcOwner |-> "-",
   bashrcByScript |-> FALSE,
   pkgs |-> FALSE, installed |-> {}, global |-> {},
   svcEnabled |-> FALSE, svcStarted |-> FALSE,
   roleExists |-> FALSE, rails |-> FALSE]

\* hosts the first invocation can meet: a fresh one, or one whose account
\* and home already exist, with or without a startup file, a runtime
\* manager and a database role
InitHosts(u) ==
  {FreshHost(u)} \cup
  {[FreshHost(u) EXCEPT !.userExists = TRUE, !.homeExists = TRUE, !.homeOwner = o,
                        !.bashrcExists = TRUE, !.bashrc = c, !.bashrcOwner = u,
                        !.localExists = m, !.localOwner = IF m THEN u ELSE "-",
                        !.miseBin = m, !.roleExists = r] :
      o \in {u, "root"}, c \in SeqsUpTo(Words, MaxLen), m \in BOOLEAN, r \in BOOLEAN} \cup
  {[FreshHost(u) EXCEPT !.userExists = TRUE, !.homeExists = TRUE, !.homeOwner = u,
                        !.roleExists = r] : r \in BOOLEAN}

Init ==
  /\ user \in Users
  /\ host \in InitHosts(user)
  /\ host0 = host
  /\ pc = "preflight"
  /\ run = 1
  /\ euid \in {0, 1000}
  /\ exitCode = -1
  /\ trace = <<>>
  /\ errlog = <<>>
  /\ prevExit = -1

\* ------------------------------------------------------- run(), preflight
\* run_begin with the privilege check left out
run_begin_noCheck ==
  /\ pc = "preflight"
  /\ pc' = "ensure_user"
  /\ UNCHANGED <<user, host, run, euid, exitCode, trace, errlog, host0, prevExit>>

run_begin ==
  /\ pc = "preflight"
  /\ IF euid # 0
     THEN /\ errlog' = Append(errlog, <<"Run as root: sudo python3 setup.py">>)
          /\ pc' = "exited"
          /\ exitCode' = 1
     ELSE /\ errlog' = errlog
          /\ pc' = "ensure_user"
          /\ exitCode' = exitCode
  /\ UNCHANGED <<user, host, run, euid, trace, host0, prevExit>>

\* ------------------------------------------------------- ensure_user
\* `id <user>` exits 0 exactly when the account exists
id_ok(h) == h.userExists

\* useradd -m: the account, and a home directory populated from /etc/skel
\* when there was none (skel says whether /etc/skel holds a .bashrc)
useradd(h, u, skel) ==
  IF h.homeExists
  THEN [h EXCEPT !.userExists = TRUE]
  ELSE [h EXCEPT !.userExists = TRUE, !.homeExists = TRUE, !.homeOwner = u,
                 !.bashrcExists = skel,
                 !.bashrc = IF skel THEN <<"x">> ELSE <<>>,
                 !.bashrcOwner = IF skel THEN u ELSE "-"]

usermod(h) == [h EXCEPT !.inSudoGroup = TRUE]

\* self.user_home.mkdir(parents=True, exist_ok=True), done by root
mkdir_home(h) ==
  IF h.homeExists THEN h
  ELSE [h EXCEPT !.homeExists = TRUE, !.homeOwner = "root"]

chown_home(h, u) == [h EXCEPT !.homeOwner = u]

\* ensure_user going on when the chown of the home fails
ensure_user_ignoreChown ==
  /\ pc = "ensure_user"
  /\ \E okAdd \in BOOLEAN, okMod \in BOOLEAN, okChown \in BOOLEAN, skel \in BOOLEAN :
       LET s0 == Enter("ensure_user")
           s1 == run_cmd(s0, <<"id", user>>, None, NoEnv, id_ok(s0.host), <<"uid">>,
                         s0.host)
           a == run_cmd(Caught(s1), <<"useradd", "-m", "-s", "/bin/bash", user>>,
                        None, NoEnv, okAdd, <<>>, useradd(s1.host, user, skel))
           b == run_cmd(a, <<"usermod", "-aG", "sudo", user>>,
                        None, NoEnv, okMod, <<>>, usermod(a.host))
           s2 == IF s1.raised THEN b ELSE s1
           s3 == fs_op(s2, "mkdir", user_home(user), mkdir_home(s2.host))
           s4 == run_cmd(s3, <<"chown", owner_arg(user), user_home(user)>>,
                         None, NoEnv, okChown, <<>>, chown_home(s3.host, user))
       IN Return(IF s3.raised THEN s4 ELSE Caught(s4), "install_packages")

\* ensure_user creating the account whatever the probe said
ensure_user_alwaysAdd ==
  /\ pc = "ensure_user"
  /\ \E okAdd \in BOOLEAN, okMod \in BOOLEAN, okChown \in BOOLEAN, skel \in BOOLEAN :
       LET s0 == Enter("ensure_user")
           s1 == run_cmd(s0, <<"id", user>>, None, NoEnv, id_ok(s0.host), <<"uid">>,
                         s0.host)
           a == run_cmd(Caught(s1), <<"useradd", "-m", "-s", "/bin/bash", user>>,
                        None, NoEnv, okAdd, <<>>, useradd(s1.host, user, skel))
           s2 == run_cmd(a, <<"usermod", "-aG", "sudo", user>>,
                         None, NoEnv, okMod, <<>>, usermod(a.host))
           s3 == fs_op(s2, "mkdir", user_home(user), mkdir_home(s2.host))
           s4 == run_cmd(s3, <<"chown", owner_arg(user), user_home(user)>>,
                         None, NoEnv, okChown, <<>>, chown_home(s3.host, user))
       IN Return(s4, "install_packages")

ensure_user ==
  /\ pc = "ensure_user"
  /\ \E okAdd \in BOOLEAN, okMod \in BOOLEAN, okChown \in BOOLEAN, skel \in BOOLEAN :
       LET s0 == Enter("ensure_user")
           s1 == run_cmd(s0, <<"id", user>>, None, NoEnv, id_ok(s0.host), <<"uid">>,
                         s0.host)
           \* except subprocess.CalledProcessError:
           a == run_cmd(Caught(s1), <<"useradd", "-m", "-s", "/bin/bash", user>>,
                        None, NoEnv, okAdd, <<>>, useradd(s1.host, user, skel))
           b == run_cmd(a, <<"usermod", "-aG", "sudo", user>>,
                        None, NoEnv, okMod, <<>>, usermod(a.host))
           s2 == IF s1.raised THEN b ELSE s1
           s3 == fs_op(s2, "mkdir", user_home(user), mkdir_home(s2.host))
           s4 == run_cmd(s3, <<"chown", owner_arg(user), user_home(user)>>,
                         None, NoEnv, okChown, <<>>, chown_home(s3.host, user))
       IN Return(s4, "install_packages")

\* ------------------------------------------------------- install_packages
apt_install(h) == [h EXCEPT !.pkgs = TRUE]

install_packages ==
  /\ pc = "install_packages"
  /\ \E okUpdate \in BOOLEAN, okInstall \in BOOLEAN :
       LET s0 == Enter("install_packages")
           s1 == run_cmd(s0, <<"apt-get", "update">>, None, NoEnv, okUpdate, <<>>,
                         s0.host)
           s2 == run_cmd(s1, <<"apt-get", "install", "-y">> \o packages, None, NoEnv,
                         okInstall, <<>>, apt_install(s1.host))
       IN Return(s2, "install_mise")

\* ------------------------------------------------------- install_mise
\* local_bin.mkdir(parents=True, exist_ok=True), done by root
mkdir_local_bin(h) ==
  IF h.localExists THEN h
  ELSE [h EXCEPT !.localExists = TRUE, !.localOwner = "root"]

chown_local(h, u) == [h EXCEPT !.localOwner = u]

\* `curl ... | sh` exits with the status of sh: it can exit 0 having
\* installed nothing (bin = FALSE) when the download yields no script
mise_installer(h, bin) == [h EXCEPT !.miseBin = bin]

\* install_mise guarded by the directory instead of the binary
install_mise_dirGuard ==
  /\ pc = "install_mise"
  /\ \E okChown \in BOOLEAN, okInstall \in BOOLEAN, bin \in BOOLEAN :
       LET s0 == Enter("install_mise")
           s1 == fs_op(s0, "mkdir", local_bin(user), mkdir_local_bin(s0.host))
           s2 == run_cmd(s1, <<"chown", "-R", owner_arg(user), local_dir(user)>>,
                         None, NoEnv, okChown, <<>>, chown_local(s1.host, user))
           env == [given |-> TRUE, HOME |-> user_home(user), PATH |-> <<>>]
           s3 == run_cmd(s2, <<"bash", "-c", mise_install_script>>, user, env,
                         okInstall, <<>>, mise_installer(s2.host, bin))
       IN IF s0.host.localExists
          THEN Return(s0, "setup_shell")
          ELSE Return(s3, "setup_shell")

\* install_mise after which run() goes on with install_runtimes
install_mise_skipShell ==
  /\ pc = "install_mise"
  /\ \E okChown \in BOOLEAN, okInstall \in BOOLEAN, bin \in BOOLEAN :
       LET s0 == Enter("install_mise")
           s1 == fs_op(s0, "mkdir", local_bin(user), mkdir_local_bin(s0.host))
           s2 == run_cmd(s1, <<"chown", "-R", owner_arg(user), local_dir(user)>>,
                         None, NoEnv, okChown, <<>>, chown_local(s1.host, user))
           env == [given |-> TRUE, HOME |-> user_home(user), PATH |-> <<>>]
           s3 == run_cmd(s2, <<"bash", "-c", mise_install_script>>, user, env,
                         okInstall, <<>>, mise_installer(s2.host, bin))
       IN IF s0.host.miseBin
          THEN Return(s0, "install_runtimes")
          ELSE Return(s3, "install_runtimes")

install_mise ==
  /\ pc = "install_mise"
  /\ \E okChown \in BOOLEAN, okInstall \in BOOLEAN, bin \in BOOLEAN :
       LET s0 == Enter("install_mise")
           s1 == fs_op(s0, "mkdir", local_bin(user), mkdir_local_bin(s0.host))
           s2 == run_cmd(s1, <<"chown", "-R", owner_arg(user), local_dir(user)>>,
                         None, NoEnv, okChown, <<>>, chown_local(s1.host, user))
           env == [given |-> TRUE, HOME |-> user_home(user), PATH |-> <<>>]
           s3 == run_cmd(s2, <<"bash", "-c", mise_install_script>>, user, env,
                         okInstall, <<>>, mise_installer(s2.host, bin))
       IN IF s0.host.miseBin
          THEN Return(s0, "setup_shell")
          ELSE Return(s3, "setup_shell")

\* ------------------------------------------------------- setup_shell
\* the file opened with 'w' instead of 'a'
append_config_overwrite(h) ==
  IF h.bashrcExists
  THEN [h EXCEPT !.bashrc = config]
  ELSE [h EXCEPT !.bashrcExists = TRUE, !.bashrc = config, !.bashrcOwner = "root",
                 !.bashrcByScript = TRUE]

\* open(bashrc, 'a').write(config): creates the file, as root, when absent
append_config(h) ==
  IF h.bashrcExists
  THEN [h EXCEPT !.bashrc = @ \o config]
  ELSE [h EXCEPT !.bashrcExists = TRUE, !.bashrc = config, !.bashrcOwner = "root",
                 !.bashrcByScript = TRUE]

chown_bashrc(h, u) == [h EXCEPT !.bashrcOwner = u]

\* the guard looking for a text the block does not hold
shell_configured_wrongMarker(h) ==
  h.bashrcExists /\ Contains(h.bashrc, <<"mise", "activate", "zsh">>)

\* the guard of setup_shell: the file exists and holds the marker
shell_configured(h) == h.bashrcExists /\ Contains(h.bashrc, Marker)

setup_shell ==
  /\ pc = "setup_shell"
  /\ \E okChown \in BOOLEAN :
       LET s0 == Enter("setup_shell")
           s1 == fs_op(s0, "append", bashrc_path(user), append_config(s0.host))
           s2 == run_cmd(s1, <<"chown", owner_arg(user), bashrc_path(user)>>,
                         None, NoEnv, okChown, <<>>, chown_bashrc(s1.host, user))
       IN IF shell_configured(s0.host)
          THEN Return(s0, "install_runtimes")
          ELSE Return(s2, "install_runtimes")

\* ------------------------------------------------------- install_runtimes
mise_install(h, r) == [h EXCEPT !.installed = @ \cup {r}]
mise_use(h, r) == [h EXCEPT !.global = @ \cup {r}]

\* the environment overlay of install_runtimes and install_rails
user_env(u) ==
  [given |-> TRUE, HOME |-> user_home(u), PATH |-> <<local_bin(u), "$PATH">>]

\* the for loop from its i-th runtime on; f is the position (1..6) of the
\* command that fails, 0 when none does.  The runtime manager can only be
\* run when its binary exists.
RECURSIVE runtimes_loop(_, _, _, _)
\* the loop body selecting a runtime before installing it
runtimes_loop_useFirst(s, u, i, f) ==
  IF i > Len(runtimes) THEN s
  ELSE LET r == runtimes[i]
           a == run_cmd(s, <<mise_bin(u), "use", "--global", r>>, u, user_env(u),
                        s.host.miseBin /\ f # 2 * i - 1, <<>>,
                        mise_use(s.host, r))
           b == run_cmd(a, <<mise_bin(u), "install", r>>, u, user_env(u),
                        a.host.miseBin /\ f # 2 * i, <<>>,
                        mise_install(a.host, r))
       IN runtimes_loop(b, u, i + 1, f)

runtimes_loop(s, u, i, f) ==
  IF i > Len(runtimes) THEN s
  ELSE LET r == runtimes[i]
           a == run_cmd(s, <<mise_bin(u), "install", r>>, u, user_env(u),
                        s.host.miseBin /\ f # 2 * i - 1, <<>>,
                        mise_install(s.host, r))
           b == run_cmd(a, <<mise_bin(u), "use", "--global", r>>, u, user_env(u),
                        a.host.miseBin /\ f # 2 * i, <<>>,
                        mise_use(a.host, r))
       IN runtimes_loop(b, u, i + 1, f)

install_runtimes ==
  /\ pc = "install_runtimes"
  /\ \E f \in 0..(2 * Len(runtimes)) :
       Return(runtimes_loop(Enter("install_runtimes"), user, 1, f), "setup_postgresql")

\* ------------------------------------------------------- setup_postgresql
systemctl_enable(h) == [h EXCEPT !.svcEnabled = TRUE]
systemctl_start(h) == [h EXCEPT !.svcStarted = TRUE]
create_role(h) == [h EXCEPT !.roleExists = TRUE]

\* psql -t prints the selected row, if there is one
select_out(h) == IF h.roleExists THEN <<"1">> ELSE <<>>

\* setup_postgresql creating the role whatever the query printed
setup_postgresql_createAlways ==
  /\ pc = "setup_postgresql"
  /\ \E okEnable \in BOOLEAN, okStart \in BOOLEAN, okSelect \in BOOLEAN,
        okCreate \in BOOLEAN :
       LET s0 == Enter("setup_postgresql")
           s1 == run_cmd(s0, <<"systemctl", "enable", "postgresql">>, None, NoEnv,
                         okEnable, <<>>, systemctl_enable(s0.host))
           s2 == run_cmd(s1, <<"systemctl", "start", "postgresql">>, None, NoEnv,
                         okStart, <<>>, systemctl_start(s1.host))
           s3 == run_cmd(s2, <<"sudo", "-u", "postgres", "psql", "-t", "-c",
                               select_sql(user)>>, None, NoEnv,
                         okSelect, select_out(s2.host), s2.host)
           s4 == run_cmd(s3, <<"sudo", "-u", "postgres", "psql", "-c",
                               create_sql(user)>>, None, NoEnv,
                         okCreate, <<>>, create_role(s3.host))
           s5 == IF s2.raised THEN s2 ELSE Caught(s4)
       IN Return(s5, "install_rails")

setup_postgresql ==
  /\ pc = "setup_postgresql"
  /\ \E okEnable \in BOOLEAN, okStart \in BOOLEAN, okSelect \in BOOLEAN,
        okCreate \in BOOLEAN :
       LET s0 == Enter("setup_postgresql")
           s1 == run_cmd(s0, <<"systemctl", "enable", "postgresql">>, None, NoEnv,
                         okEnable, <<>>, systemctl_enable(s0.host))
           s2 == run_cmd(s1, <<"systemctl", "start", "postgresql">>, None, NoEnv,
                         okStart, <<>>, systemctl_start(s1.host))
           \* try:
           s3 == run_cmd(s2, <<"sudo", "-u", "postgres", "psql", "-t", "-c",
                               select_sql(user)>>, None, NoEnv,
                         okSelect, select_out(s2.host), s2.host)
           s4 == IF ~s3.raised /\ ~Contains(s3.stdout, Sentinel)
                 THEN run_cmd(s3, <<"sudo", "-u", "postgres", "psql", "-c",
                                    create_sql(user)>>, None, NoEnv,
                              okCreate, <<>>, create_role(s3.host))
                 ELSE s3
           \* except subprocess.CalledProcessError: pass
           s5 == IF s2.raised THEN s2 ELSE Caught(s4)
       IN Return(s5, "install_rails")

\* ------------------------------------------------------- install_rails
gem_install(h) == [h EXCEPT !.rails = TRUE]

install_rails ==
  /\ pc = "install_rails"
  /\ \E okGem \in BOOLEAN :
       LET s0 == Enter("install_rails")
           s1 == run_cmd(s0, <<"bash", "-c", rails_script>>, user, user_env(user),
                         okGem, <<>>, gem_install(s0.host))
       IN Return(s1, "complete")

\* ------------------------------------------------------- run(), the end
\* the last line of run(); the interpreter then exits with status 0
run_end ==
  /\ pc = "complete"
  /\ pc' = "exited"
  /\ exitCode' = 0
  /\ UNCHANGED <<user, host, run, euid, trace, errlog, host0, prevExit>>

\* the script is started again on the same host: RailsBootstrap().run()
Invoke ==
  /\ pc = "exited"
  /\ run < MaxRuns
  /\ run' = run + 1
  /\ euid' \in {0, 1000}
  /\ pc' = "preflight"
  /\ prevExit' = exitCode
  /\ exitCode' = -1
  /\ host0' = host
  /\ trace' = <<>>
  /\ errlog' = <<>>
  /\ UNCHANGED <<user, host>>

Next ==
  \/ run_begin
  \/ ensure_user
  \/ install_packages
  \/ install_mise
  \/ setup_shell
  \/ install_runtimes
  \/ setup_postgresql
  \/ install_rails
  \/ run_end
  \/ Invoke

Spec == Init /\ [][Next]_vars

\* ------------------------------------------------------- reading a trace
StepIdx(step) == CHOOSE i \in 1..Len(StepOrder) : StepOrder[i] = step

Entries == {trace[i] : i \in 1..Len(trace)}
FailedCmd(e) == e.kind = "cmd" /\ ~e.ok

IsIdProbe(e) == e.kind = "cmd" /\ e.argv = <<"id", user>>
IsUseradd(e) == e.kind = "cmd" /\ e.argv[1] = "useradd"
IsUsermod(e) == e.kind = "cmd" /\ e.argv[1] = "usermod"
IsChown(e) == e.kind = "cmd" /\ e.argv[1] = "chown"
IsAptInstall(e) == e.kind = "cmd" /\ e.argv[1] = "apt-get" /\ e.argv[2] = "install"
IsMiseInstaller(e) == e.kind = "cmd" /\ e.argv[Len(e.argv)] = mise_install_script
IsMiseCmd(e) == e.kind = "cmd" /\ \E i \in 1..Len(e.argv) : e.argv[i] = mise_bin(user)
IsRoleQuery(e) == e.kind = "cmd" /\ e.argv[Len(e.argv)] = select_sql(user)
IsRoleCreate(e) == e.kind = "cmd" /\ e.argv[Len(e.argv)] = create_sql(user)
IsGemInstall(e) == e.kind = "cmd" /\ e.argv[Len(e.argv)] = rails_script
IsAppend(e) == e.kind = "fs" /\ e.argv[1] = "append"

\* the actions the steps perform, as opposed to their probes
IsStepAction(e) ==
  \/ IsUseradd(e) \/ IsUsermod(e) \/ IsChown(e) \/ IsAptInstall(e)
  \/ IsMiseInstaller(e) \/ IsMiseCmd(e) \/ IsRoleCreate(e) \/ IsGemInstall(e)
  \/ IsAppend(e)

StepsSeen == {e.step : e \in Entries}

\* ------------------------------------------------------- C1
\* C1: a failing command halts the sequence: when a command of step k fails,
\* nothing of a later step (command or file write) is performed in that run.
\* The role-existence query is exempt, and so is read the `id` probe, the
\* guard of step 1.  The code also swallows a failing CREATE USER.
C1_FailureHaltsSequence ==
  \A i \in 1..Len(trace) : \A j \in 1..Len(trace) :
     (i < j /\ FailedCmd(trace[i]) /\ ~IsRoleQuery(trace[i]) /\ ~IsIdProbe(trace[i]))
        => StepIdx(trace[j].step) <= StepIdx(trace[i].step)

\* ------------------------------------------------------- C2
\* C2: when the role-existence query fails, CREATE USER is still attempted
\* in that run and the run goes on to install_rails.
C2_CreateAfterFailedQuery ==
  \A i \in 1..Len(trace) :
     (IsRoleQuery(trace[i]) /\ ~trace[i].ok)
        => /\ \E j \in (i + 1)..Len(trace) : IsRoleCreate(trace[j])
           /\ pc = "install_rails" \/ "install_rails" \in StepsSeen

\* ------------------------------------------------------- C3
\* C3: in a run that follows a successful run no step's action is executed
\* again, and when it has exited the host is as the first run left it.
C3_SecondRunSkipsActions ==
  (run > 1 /\ prevExit = 0)
     => /\ \A e \in Entries : ~IsStepAction(e)
        /\ (pc = "exited" /\ exitCode = 0) => host = host0

\* ------------------------------------------------------- C4
\* C4: without administrative privilege the run ends with a non-zero status
\* before any step starts: no command, no file operation, host untouched.
C4_PreflightFailsFast ==
  (euid # 0 /\ pc # "preflight")
     => pc = "exited" /\ exitCode = 1 /\ trace = <<>> /\ host = host0

C4_Witness == euid # 0 /\ pc = "exited" /\ exitCode = 1

\* ------------------------------------------------------- C5
\* C5: status 0 only after every step completed, and a failure other than
\* that of the role-existence query is never suppressed: a run in which
\* CREATE USER failed does not exit 0.
C5_ExitStatus ==
  /\ exitCode = 0 => /\ pc = "exited"
                     /\ \A e \in Entries : FailedCmd(e) => IsIdProbe(e) \/ IsRoleQuery(e)
  /\ (pc = "exited" /\ \E e \in Entries : IsRoleCreate(e) /\ ~e.ok) => exitCode = 1

\* ------------------------------------------------------- C6
\* what ensure_user adds to the trace
NewEntries == {trace'[i] : i \in (Len(trace) + 1)..Len(trace')}

C7_MarkerSkipsAppend ==
  [][(pc = "setup_shell" /\ host.bashrcExists /\ Contains(host.bashrc, Marker))
       => host' = host /\ trace' = trace /\ errlog' = errlog
          /\ pc' = "install_runtimes"]_vars

C7_Witness ==
  /\ pc = "install_runtimes"
  /\ run = 1
  /\ host.bashrcExists /\ Contains(host.bashrc, Marker)
  /\ host.bashrc = host0.bashrc
  /\ "setup_shell" \notin StepsSeen

\* ------------------------------------------------------- C8
Fresh0 == host0 = FreshHost(user) /\ euid = 0
NoFailure == \A e \in Entries : FailedCmd(e) => IsIdProbe(e)
InOrder ==
  \A i \in 1..Len(trace) : \A j \in 1..Len(trace) :
     i < j => StepIdx(trace[i].step) <= StepIdx(trace[j].step)
\* the steps that have been entered are an initial segment of StepOrder
StepsPrefix ==
  \A k \in 1..Len(StepOrder) :
     StepOrder[k] \in StepsSeen => \A m \in 1..k : StepOrder[m] \in StepsSeen

\* position of the process along run(): preflight, the seven steps, the
\* final log line, the exit
Rank(p) ==
  IF p = "preflight" THEN 0
  ELSE IF p = "complete" THEN Len(StepOrder) + 1
  ELSE IF p = "exited" THEN Len(StepOrder) + 2
  ELSE StepIdx(p)

\* C8: on a fresh host where every command succeeds the seven steps run in
\* the order of StepOrder, each entered only when the one before it has
\* returned, and the run ends with status 0.  Every move of such a run
\* advances the process by exactly one position, so it ends after
\* Len(StepOrder) + 2 moves.
C8_FreshRunInOrder ==
  /\ [](Fresh0 => InOrder /\ StepsPrefix)
  /\ []((Fresh0 /\ NoFailure /\ pc = "exited")
          => exitCode = 0 /\ StepsSeen = {StepOrder[k] : k \in 1..Len(StepOrder)})
  /\ [][(Fresh0 /\ run' = run /\ NoFailure') => Rank(pc') = Rank(pc) + 1]_vars

C8_Witness ==
  /\ Fresh0 /\ NoFailure /\ pc = "exited" /\ exitCode = 0
  /\ host.rails /\ host.global = {runtimes[i] : i \in 1..Len(runtimes)}

\* ------------------------------------------------------- C9
\* C9: when the installer of step 3 exits 0 but the runtime-manager binary
\* is still absent, the run aborts at once: no later step executes and the
\* startup file is not modified.
C9_AbortWithoutBinary ==
  (~host.miseBin /\ \E e \in Entries : IsMiseInstaller(e) /\ e.ok)
     => /\ pc = "exited" /\ exitCode = 1
        /\ \A e \in Entries : StepIdx(e.step) <= 3
        /\ host.bashrc = host0.bashrc

\* ------------------------------------------------------- C10
\* C10: for every failing command the error output holds the command's
\* argument list and both captured streams.
C10_FailureOutputComplete ==
  \A e \in Entries :
     FailedCmd(e) => \E k \in 1..Len(errlog) :
                        /\ Contains(errlog[k], e.argv)
                        /\ Contains(errlog[k], e.stdout)
                        /\ Contains(errlog[k], e.stderr)

\* ------------------------------------------------------- C11
\* the commands that run as the target identity
IsTargetCmd(e) == e.kind = "cmd" /\ e.usr = user
IsMkdirHome(e) == e.kind = "fs" /\ e.argv = <<"mkdir", user_home(user)>>
IsChownHome(e) == IsChown(e) /\ e.argv = <<"chown", owner_arg(user), user_home(user)>>

\* C11: a command that runs as the target identity is issued only after the
\* mkdir and the chown of the home directory by ensure_user succeeded in the
\* same run, and the home then exists and belongs to the identity.
C11_HomeOwnedBeforeTargetCmd ==
  \A j \in 1..Len(trace) :
     IsTargetCmd(trace[j])
       => /\ \E i \in 1..(j - 1) : \E k \in (i + 1)..(j - 1) :
               /\ IsMkdirHome(trace[i]) /\ trace[i].step = "ensure_user"
               /\ IsChownHome(trace[k]) /\ trace[k].ok /\ trace[k].step = "ensure_user"
          /\ host.homeExists /\ host.homeOwner = user

\* a target command was issued on a host whose home was not the identity's
C11_Witness ==
  /\ host0.homeOwner # user
  /\ \E e \in Entries : IsTargetCmd(e) /\ IsMiseInstaller(e)
  /\ \E e \in Entries : IsTargetCmd(e) /\ IsGemInstall(e)

\* ------------------------------------------------------- C12
Wrapper(u) == <<"sudo", "-u", u, "-H">>
CmdEntries == {e \in Entries : e.kind = "cmd"}

\* what run_cmd does with the identity it is given: wrapper exactly for a
\* named identity other than root, argv untouched otherwise
WrapsExactlyNonAdmin ==
  \A e \in CmdEntries :
     /\ (e.usr # None /\ e.usr # "root") => e.argv = Wrapper(e.usr) \o e.cmd
     /\ (e.usr = None \/ e.usr = "root") => e.argv = e.cmd

\* which identity the steps hand to run_cmd
StepIdentities ==
  \A e \in CmdEntries :
     /\ (e.step \in {"install_runtimes", "install_rails"} \/ IsMiseInstaller(e))
           => e.usr = user
     /\ e.step \in {"ensure_user", "install_packages", "setup_postgresql"}
           => e.usr = None

\* C12 as stated: besides the above, every command of steps 3, 5 and 7 that
\* is passed the target identity runs impersonated.
C12_TargetCmdsImpersonated ==
  /\ WrapsExactlyNonAdmin
  /\ StepIdentities
  /\ \A e \in CmdEntries :
        e.usr = user => Len(e.argv) > 4 /\ SubSeq(e.argv, 1, 4) = Wrapper(user)

\* C12 amended: run_cmd wraps exactly for a non-administrative identity;
\* steps 1, 2 and 6 run their commands under the administrative identity,
\* and the commands of steps 3, 5 and 7 that are passed the target identity
\* run impersonated exactly when that identity is not root (SUDO_USER=root
\* makes the target administrative, and they then run unwrapped).
C12_WrapperIffNonAdmin ==
  /\ WrapsExactlyNonAdmin
  /\ StepIdentities
  /\ \A e \in CmdEntries :
        e.usr = user
          => IF user = "root" THEN e.argv = e.cmd
             ELSE SubSeq(e.argv, 1, 4) = Wrapper(user)
                  /\ SubSeq(e.argv, 5, Len(e.argv)) = e.cmd

C12_Witness ==
  /\ user = "root"
  /\ \E e \in CmdEntries : IsGemInstall(e) /\ e.usr = "root" /\ e.argv = e.cmd
  /\ \E e \in CmdEntries : IsRoleQuery(e) /\ e.usr = None

\* ------------------------------------------------------- C13
\* C13: when the startup file exists without the marker, setup_shell
\* appends: the content afterwards is the content before followed by the
\* block (nothing overwritten or truncated), and it holds the marker.
C13_AppendKeepsContent ==
  [][(pc = "setup_shell" /\ host.bashrcExists /\ ~Contains(host.bashrc, Marker))
       => /\ host'.bashrcExists
          /\ host'.bashrc = host.bashrc \o config
          /\ SubSeq(host'.bashrc, 1, Len(host.bashrc)) = host.bashrc
          /\ Contains(host'.bashrc, Marker)
          /\ \E e \in NewEntries : IsAppend(e)]_vars

C13_Witness ==
  /\ "setup_shell" \in StepsSeen
  /\ host0.bashrcExists /\ Len(host0.bashrc) > 0
  /\ ~Contains(host0.bashrc, Marker)
  /\ host.bashrc = host0.bashrc \o config

\* ------------------------------------------------------- C14
IsMkdirLocalBin(e) == e.kind = "fs" /\ e.argv = <<"mkdir", local_bin(user)>>

\* C14: when the runtime-manager binary exists as install_mise starts, the
\* step does nothing (no directory, no chown, no installer); the guard is
\* read from the host as it is now, in every run: with the binary absent
\* the action is performed whatever an earlier run did.
C14_BinaryGuardSkips ==
  [][(pc = "install_mise")
       => /\ host.miseBin
             => host' = host /\ trace' = trace /\ errlog' = errlog
                /\ pc' = "setup_shell"
          /\ ~host.miseBin
             => /\ \E e \in NewEntries : IsMkdirLocalBin(e)
                /\ \E e \in NewEntries : IsChown(e) /\ e.step = "install_mise"
                /\ host'.localExists]_vars

\* the guard was satisfied in a run after the one that installed the binary
C14_Witness ==
  /\ run > 1
  /\ pc = "setup_shell"
  /\ host.miseBin
  /\ "install_mise" \notin StepsSeen

\* ------------------------------------------------------- C15
IsRuntimeEntry(e) == e.step = "install_runtimes"

\* the k-th command of install_runtimes, as handed to run_cmd
RuntimeCmd(k) ==
  IF k % 2 = 1
  THEN <<mise_bin(user), "install", runtimes[(k + 1) \div 2]>>
  ELSE <<mise_bin(user), "use", "--global", runtimes[k \div 2]>>

\* C15: install_runtimes issues install and use --global for ruby@latest,
\* node@lts, yarn@latest in that order, each command only after the one
\* before it succeeded; a failing one is the last thing the run does.
C15_RuntimesInOrder ==
  LET R == SelectSeq(trace, IsRuntimeEntry)
  IN /\ Len(R) <= 2 * Len(runtimes)
     /\ runtimes = <<"ruby@latest", "node@lts", "yarn@latest">>
     /\ \A k \in 1..Len(R) :
           /\ R[k].kind = "cmd" /\ R[k].cmd = RuntimeCmd(k)
           /\ k < Len(R) => R[k].ok
           /\ ~R[k].ok => trace[Len(trace)] = R[k] /\ pc = "exited" /\ exitCode = 1
     /\ (pc \in {"setup_postgresql", "install_rails", "complete"}) => Len(R) = 2 * Len(runtimes)

C15_Witness ==
  /\ pc = "exited" /\ exitCode = 1
  /\ Len(SelectSeq(trace, IsRuntimeEntry)) = 4
  /\ ~trace[Len(trace)].ok
  /\ host.global = {"ruby@latest"}

\* ------------------------------------------------------- C16
IsSvcEnable(e) == e.kind = "cmd" /\ e.argv = <<"systemctl", "enable", "postgresql">>
IsSvcStart(e) == e.kind = "cmd" /\ e.argv = <<"systemctl", "start", "postgresql">>

\* C16: per run at most one CREATE USER is issued, and only right after a
\* role query that succeeded with no '1' in its output, itself after
\* successful enable and start; after a query whose output holds the
\* sentinel no CREATE USER is issued.
C16_RoleCreateGuarded ==
  /\ Cardinality({j \in 1..Len(trace) : IsRoleCreate(trace[j])}) <= 1
  /\ \A j \in 1..Len(trace) :
        IsRoleCreate(trace[j])
          => /\ j > 3
             /\ IsSvcEnable(trace[j - 3]) /\ trace[j - 3].ok
             /\ IsSvcStart(trace[j - 2]) /\ trace[j - 2].ok
             /\ IsRoleQuery(trace[j - 1]) /\ trace[j - 1].ok
             /\ ~Contains(trace[j - 1].stdout, Sentinel)
  /\ \A i \in 1..Len(trace) :
        (IsRoleQuery(trace[i]) /\ trace[i].ok /\ Contains(trace[i].stdout, Sentinel))
          => \A j \in 1..Len(trace) : ~IsRoleCreate(trace[j])

\* a run that found the role absent and created it
C16_Witness ==
  /\ pc = "install_rails"
  /\ ~host0.roleExists /\ host.roleExists
  /\ \E e \in Entries : IsRoleQuery(e) /\ e.ok /\ ~Contains(e.stdout, Sentinel)
  /\ \E e \in Entries : IsRoleCreate(e) /\ e.ok

\* ------------------------------------------------------- C17
\* C17: each command that runs as the target identity (runtime-manager
\* installer, runtime install and select, toolchain install) is given an
\* overlay with HOME = the identity's home and a PATH that begins with the
\* identity's local binary directory.
C17_TargetCmdsHaveOverlay ==
  \A e \in CmdEntries :
     (IsMiseInstaller(e) \/ IsMiseCmd(e) \/ IsGemInstall(e))
       => /\ e.env.given
          /\ e.env.HOME = user_home(user)
          /\ Len(e.env.PATH) > 0
          /\ e.env.PATH[1] = local_bin(user)

\* ------------------------------------------------------- C18
\* number of places where needle occurs in hay
Occurrences(hay, needle) ==
  Cardinality({i \in 0..(Len(hay) - Len(needle)) :
                 \A j \in 1..Len(needle) : hay[i + j] = needle[j]})

\* C18: over any sequence of runs, aborted ones included, the startup file
\* never holds more than one copy of the block.
C18_BlockAppendedOnce == Occurrences(host.bashrc, config) <= 1

\* a run aborted after writing the block, and the next run past setup_shell
C18_Witness ==
  /\ run > 1 /\ prevExit = 1
  /\ Occurrences(host0.bashrc, config) = 1
  /\ host0.bashrcByScript
  /\ pc = "install_runtimes"
  /\ Occurrences(host.bashrc, config) = 1

\* ------------------------------------------------------- C19
\* C19: whenever a run exits 0, a startup file that the script created
\* belongs to the target identity, also after earlier aborted runs.
C19_CreatedFileOwnedOnSuccess ==
  (pc = "exited" /\ exitCode = 0 /\ host.bashrcByScript)
     => host.bashrcOwner = user

====
